---- MODULE Spec2Model ----
(***************************************************************************)
(* A model of reframed/community/model.py: the Community class, its        *)
(* constructor, size(), the lazy merged_model property and merge_models.   *)
(*                                                                         *)
(* Identifiers are Python strings and are modelled as TLA+ strings, so     *)
(* that rename (string concatenation), startswith and slicing behave as in *)
(* the code.  Python's None is the empty tuple and a present value x is    *)
(* the 1-tuple <<x>>.  A Python dict with string or tuple keys is a TLA+   *)
(* function; an ordered dict that the code iterates is a sequence of       *)
(* entries.                                                                *)
(***************************************************************************)
EXTENDS Integers, Sequences, FiniteSets, TLC

VARIABLES
    pc,              \* "start": before Community(...) runs; "constructed": after
    args,            \* the arguments of Community(community_id, models, copy_models)
    id,              \* self.id
    organisms,       \* self.organisms, an ordered dict: sequence of [key, value]
    _merged_model,   \* self._merged_model
    reaction_map,    \* self.reaction_map
    metabolite_map,  \* self.metabolite_map
    warnings,        \* number of warn(...) calls made so far
    returned,        \* history: the outcome of every read of merged_model, in order
    merge_calls,     \* history: number of merge_models runs started by merged_model
    objects          \* number of CBModel objects created so far (object identities)

vars == <<pc, args, id, organisms, _merged_model, reaction_map, metabolite_map,
          warnings, returned, merge_calls, objects>>

(***************************************************************************)
(* Bounds of the model.                                                    *)
(***************************************************************************)
MaxModels == 2       \* longest list of models passed to the constructor
MaxReads == 2        \* reads of merged_model / direct merge_models calls explored

\* math.inf; only compared for equality, so a number above every finite bound used
inf == 1000000

None == << >>
Some(x) == <<x>>

(***************************************************************************)
(* Python dict operations.                                                 *)
(***************************************************************************)
EmptyDict == << >>

\* d[k] = v : inserts, or replaces the value of an existing key
Put(d, k, v) == [x \in (DOMAIN d) \cup {k} |-> IF x = k THEN v ELSE d[x]]

\* keys of an ordered dict held as a sequence of [key, value] entries
Keys(od) == {od[i].key : i \in 1..Len(od)}

\* od[k] = v on an ordered dict: an existing key keeps its position and gets the
\* new value; a new key is appended
OrderedPut(od, k, v) ==
    IF k \in Keys(od)
    THEN [i \in 1..Len(od) |-> IF od[i].key = k THEN [key |-> k, value |-> v] ELSE od[i]]
    ELSE Append(od, [key |-> k, value |-> v])

(***************************************************************************)
(* The entity types of reframed.core that the merge builds.  A reaction    *)
(* built without a name, bounds, objective or GPR gets the constructor's   *)
(* defaults.                                                               *)
(***************************************************************************)
EXCHANGE == "exchange"
ENZYMATIC == "enzymatic"
OTHER_TYPE == "other"         \* the type of a reaction built without reaction_type

Compartment(c_id, name, external) ==
    [id |-> c_id, name |-> name, external |-> external]

Metabolite(m_id, name, compartment, metadata) ==
    [id |-> m_id, name |-> name, compartment |-> compartment, metadata |-> metadata]

Gene(g_id, name, metadata) ==
    [id |-> g_id, name |-> name, metadata |-> metadata]

CBReaction(r_id, name, reversible, stoichiometry, reaction_type, lb, ub, objective, gpr, metadata) ==
    [id |-> r_id, name |-> name, reversible |-> reversible,
     stoichiometry |-> stoichiometry, reaction_type |-> reaction_type,
     lb |-> lb, ub |-> ub, objective |-> objective, gpr |-> gpr,
     metadata |-> metadata]

\* CBReaction(r_id, reversible=..., stoichiometry=..., reaction_type=...)
CBReactionDefaults(r_id, reversible, stoichiometry, reaction_type, metadata) ==
    CBReaction(r_id, None, reversible, stoichiometry, reaction_type,
               0 - inf, inf, 0, None, metadata)

\* CBModel(model_id): an empty model; obj is the identity of the new object
CBModel(model_id, obj) ==
    [id |-> model_id, obj |-> obj, compartments |-> EmptyDict,
     metabolites |-> EmptyDict, genes |-> EmptyDict, reactions |-> EmptyDict]

add_compartment(model, comp) ==
    [model EXCEPT !.compartments = Put(@, comp.id, comp)]

\* add_metabolite raises when the metabolite's compartment is not in the model
add_metabolite_raises(model, met) ==
    met.compartment \notin DOMAIN model.compartments

add_metabolite(model, met) ==
    [model EXCEPT !.metabolites = Put(@, met.id, met)]

add_gene(model, gene) ==
    [model EXCEPT !.genes = Put(@, gene.id, gene)]

add_reaction(model, rxn) ==
    [model EXCEPT !.reactions = Put(@, rxn.id, rxn)]

(***************************************************************************)
(* Python string operations used by the merge.                             *)
(***************************************************************************)
startswith(s, prefix) ==
    Len(s) >= Len(prefix) /\ SubSeq(s, 1, Len(prefix)) = prefix

\* s[n:]
SliceFrom(s, n) == IF Len(s) <= n THEN "" ELSE SubSeq(s, n + 1, Len(s))

\* the rename closure of merge_models, with its free variable org_id made explicit
rename(old_id, org_id) == old_id \o "_" \o org_id

(***************************************************************************)
(* merge_models.  The running state of one call is the record st:          *)
(*   comm_model, old_ext_comps, ext_mets : the locals of that name         *)
(*   reaction_map, metabolite_map        : the attributes of self, which   *)
(*                                         the call resets and fills       *)
(*   failed                              : an exception has been raised;   *)
(*                                         nothing after it is executed    *)
(***************************************************************************)
ext_comp_id == "ext"
biomass_id == "community_biomass"
comm_growth == "community_growth"

\* lines 34-65: the new model, the reset maps, the shared compartment, the
\* community biomass metabolite and the community growth reaction
MergeStart(community_id, obj) ==
    LET m0 == CBModel(community_id, obj)
        m1 == add_compartment(m0, Compartment(ext_comp_id, "extracellular environment", TRUE))
        m2 == add_metabolite(m1, Metabolite(biomass_id, "Total community biomass",
                                            ext_comp_id, EmptyDict))
        rxn == CBReaction(comm_growth, Some("Community growth rate"), FALSE,
                          Put(EmptyDict, biomass_id, -1), OTHER_TYPE, 0, inf, 1, None, EmptyDict)
    IN  [comm_model |-> add_reaction(m2, rxn),
         old_ext_comps |-> << >>,
         ext_mets |-> << >>,
         reaction_map |-> EmptyDict,
         metabolite_map |-> EmptyDict,
         failed |-> FALSE]

\* lines 74-78, one iteration
MergeCompartment(st, org_id, comp) ==
    [st EXCEPT
        !.old_ext_comps = IF comp.external THEN Append(@, comp.id) ELSE @,
        !.comm_model = add_compartment(@, Compartment(rename(comp.id, org_id), comp.name, FALSE))]

\* line 91: is the bare id absent from the community model?
NotYetInCommunity(m_id, comm_model) == m_id \notin DOMAIN comm_model.metabolites

\* lines 81-95, one iteration
MergeMetabolite(st, org_id, met) ==
    LET new_id == rename(met.id, org_id)
        new_met == Metabolite(new_id, met.name, rename(met.compartment, org_id), met.metadata)
    IN  IF add_metabolite_raises(st.comm_model, new_met)
        THEN [st EXCEPT !.failed = TRUE]
        ELSE LET m1 == add_metabolite(st.comm_model, new_met)
                 mm == Put(st.metabolite_map, <<org_id, met.id>>, new_id)
             IN  IF NotYetInCommunity(met.id, m1)
                 THEN [st EXCEPT
                         !.comm_model = add_metabolite(m1,
                              Metabolite(met.id, met.name, ext_comp_id, met.metadata)),
                         !.metabolite_map = mm,
                         !.ext_mets = Append(@, met.id)]
                 ELSE [st EXCEPT !.comm_model = m1, !.metabolite_map = mm]

\* lines 98-102, one iteration
MergeGene(st, org_id, gene) ==
    [st EXCEPT !.comm_model =
        add_gene(@, Gene(rename(gene.id, org_id), gene.name, gene.metadata))]

\* lines 123-125: {rename(m_id): coeff for m_id, coeff in rxn.stoichiometry.items()}
RenamedStoichiometry(stoichiometry, org_id) ==
    [k \in {rename(stoichiometry[i].met, org_id) : i \in 1..Len(stoichiometry)} |->
        LET i == CHOOSE j \in 1..Len(stoichiometry) :
                     rename(stoichiometry[j].met, org_id) = k
        IN  stoichiometry[i].coeff]

\* lines 130-140: the GPR association rebuilt over the renamed genes
RenamedGPR(gpr, org_id) ==
    IF gpr = None
    THEN None
    ELSE Some([metadata |-> gpr[1].metadata,
               proteins |-> [p \in 1..Len(gpr[1].proteins) |->
                   [metadata |-> gpr[1].proteins[p].metadata,
                    genes |-> [g \in 1..Len(gpr[1].proteins[p].genes) |->
                                  rename(gpr[1].proteins[p].genes[g], org_id)]]]])

\* an exchange branch that checks the arity it assumes
FirstKeyRaisesUnlessOne(stoichiometry) == Len(stoichiometry) # 1

\* line 111: list(rxn.stoichiometry.keys())[0] raises IndexError on an empty dict
FirstKeyRaises(stoichiometry) == Len(stoichiometry) = 0

\* lines 109-121: the exchange branch
ExchangeReaction(org_id, rxn) ==
    LET new_id == rename(rxn.id, org_id) \o "_INT"
        m_id == rxn.stoichiometry[1].met
        new_stoichiometry == Put(Put(EmptyDict, m_id, 1), rename(m_id, org_id), -1)
    IN  CBReactionDefaults(new_id, TRUE, new_stoichiometry, EXCHANGE, rxn.metadata)

\* line 127
IsBiomassReaction(r_id, model) == model.biomass_reaction = Some(r_id)

\* lines 122-151: every other reaction; objective is not passed on, so the new
\* reaction has the constructor's default, 0
InternalReaction(org_id, model, rxn) ==
    LET renamed == RenamedStoichiometry(rxn.stoichiometry, org_id)
        new_stoichiometry == IF IsBiomassReaction(rxn.id, model)
                             THEN Put(renamed, biomass_id, 1)
                             ELSE renamed
    IN  CBReaction(rename(rxn.id, org_id), rxn.name, rxn.reversible, new_stoichiometry,
                   rxn.reaction_type, rxn.lb, rxn.ub, 0,
                   RenamedGPR(rxn.gpr, org_id), rxn.metadata)

\* line 109
IsExchange(rxn) == rxn.reaction_type = EXCHANGE

\* lines 105-155, one iteration
MergeReaction(st, org_id, model, rxn) ==
    IF IsExchange(rxn) /\ FirstKeyRaises(rxn.stoichiometry)
    THEN [st EXCEPT !.failed = TRUE]
    ELSE LET new_rxn == IF IsExchange(rxn)
                        THEN ExchangeReaction(org_id, rxn)
                        ELSE InternalReaction(org_id, model, rxn)
         IN  [st EXCEPT
                !.comm_model = add_reaction(@, new_rxn),
                !.reaction_map = Put(@, <<org_id, rxn.id>>, new_rxn.id)]

\* line 160
ExchangeId(m_id) ==
    IF startswith(m_id, "M_") THEN "R_EX_" \o SliceFrom(m_id, 2) ELSE "R_EX_" \o m_id

\* lines 159-167, one iteration
AddExchange(st, m_id) ==
    [st EXCEPT !.comm_model =
        add_reaction(@, CBReactionDefaults(ExchangeId(m_id), TRUE,
                                           Put(EmptyDict, m_id, -1), EXCHANGE, EmptyDict))]

\* the for loops: Step is applied to the items in order, and an exception ends the loop
RECURSIVE MergeCompartments(_, _, _, _)
MergeCompartments(st, org_id, comps, i) ==
    IF st.failed \/ i > Len(comps) THEN st
    ELSE MergeCompartments(MergeCompartment(st, org_id, comps[i]), org_id, comps, i + 1)

RECURSIVE MergeMetabolites(_, _, _, _)
MergeMetabolites(st, org_id, mets, i) ==
    IF st.failed \/ i > Len(mets) THEN st
    ELSE MergeMetabolites(MergeMetabolite(st, org_id, mets[i]), org_id, mets, i + 1)

RECURSIVE MergeGenes(_, _, _, _)
MergeGenes(st, org_id, genes, i) ==
    IF st.failed \/ i > Len(genes) THEN st
    ELSE MergeGenes(MergeGene(st, org_id, genes[i]), org_id, genes, i + 1)

RECURSIVE MergeReactions(_, _, _, _)
MergeReactions(st, org_id, model, i) ==
    IF st.failed \/ i > Len(model.reactions) THEN st
    ELSE MergeReactions(MergeReaction(st, org_id, model, model.reactions[i]),
                        org_id, model, i + 1)

\* lines 68-155, one organism
MergeOrganism(st, org_id, model) ==
    LET s1 == MergeCompartments(st, org_id, model.compartments, 1)
        s2 == MergeMetabolites(s1, org_id, model.metabolites, 1)
        s3 == MergeGenes(s2, org_id, model.genes, 1)
    IN  MergeReactions(s3, org_id, model, 1)

RECURSIVE MergeOrganisms(_, _, _)
MergeOrganisms(st, orgs, i) ==
    IF st.failed \/ i > Len(orgs) THEN st
    ELSE MergeOrganisms(MergeOrganism(st, orgs[i].key, orgs[i].value.model), orgs, i + 1)

RECURSIVE AddExchanges(_, _)
AddExchanges(st, i) ==
    IF st.failed \/ i > Len(st.ext_mets) THEN st
    ELSE AddExchanges(AddExchange(st, st.ext_mets[i]), i + 1)

\* merge_models(self): the final state of the call; when failed, the exception
\* leaves the call and comm_model is lost, but the maps are attributes of self
merge_models(community_id, orgs, obj) ==
    AddExchanges(MergeOrganisms(MergeStart(community_id, obj), orgs, 1), 1)

(***************************************************************************)
(* The organism models given to the constructor.  An organism model holds  *)
(* ordered dicts of compartments, metabolites, genes and reactions (each a *)
(* sequence here, ids distinct within it), and biomass_reaction, None or   *)
(* the id of a reaction.  Every compartment a metabolite names and every   *)
(* metabolite a stoichiometry names is in the model.  The organism ids are  *)
(* "a", "b", "a_b" and "growth"; the ids include ones with '_' in them, as *)
(* the ids of real models have.                                            *)
(***************************************************************************)
Coeff(m_id, coeff) == [met |-> m_id, coeff |-> coeff]

InMet(org_id, m_id, c_id) ==
    [id |-> m_id, name |-> m_id \o " of " \o org_id, compartment |-> c_id,
     metadata |-> Put(EmptyDict, "src", org_id)]

InGene(g_id) == [id |-> g_id, name |-> g_id, metadata |-> EmptyDict]

InGPR(g_id) ==
    Some([metadata |-> EmptyDict,
          proteins |-> << [metadata |-> EmptyDict, genes |-> <<g_id>>] >>])

\* an irreversible reaction with finite bounds that is the organism's own objective
InRxn(r_id, reaction_type, stoichiometry, gpr) ==
    [id |-> r_id, name |-> Some(r_id), reversible |-> FALSE,
     stoichiometry |-> stoichiometry, reaction_type |-> reaction_type,
     lb |-> 0, ub |-> 10, objective |-> 1, gpr |-> gpr,
     metadata |-> Put(EmptyDict, "rxn", r_id)]

Comps(c_id, e_id) ==
    << [id |-> c_id, name |-> "cytosol", external |-> FALSE],
       [id |-> e_id, name |-> "extracellular", external |-> TRUE] >>

\* one growth reaction and one exchange reaction of one metabolite
PlainModel(o) ==
    [id |-> o,
     compartments |-> Comps("c", "e"),
     metabolites |-> << InMet(o, "x", "e") >>,
     genes |-> << InGene("g") >>,
     reactions |-> << InRxn("r", ENZYMATIC, << Coeff("x", -1) >>, InGPR("g")),
                      InRxn("ex", EXCHANGE, << Coeff("x", -1) >>, None) >>,
     biomass_reaction |-> Some("r")]

\* metabolite ids with and without the M_ prefix
PrefixModel(o) ==
    [id |-> o,
     compartments |-> Comps("c", "e"),
     metabolites |-> << InMet(o, "M_x", "e"), InMet(o, "x", "c") >>,
     genes |-> << InGene("g_a") >>,
     reactions |-> << InRxn("r_a", ENZYMATIC, << Coeff("M_x", -1), Coeff("x", 2) >>,
                            InGPR("g_a")),
                      InRxn("r", EXCHANGE, << Coeff("M_x", -1) >>, None) >>,
     biomass_reaction |-> Some("r_a")]

\* ids that end in the id of another organism
SuffixModel(o) ==
    [id |-> o,
     compartments |-> Comps("c_a", "e"),
     metabolites |-> << InMet(o, "x_a", "e"), InMet(o, "x", "c_a") >>,
     genes |-> << >>,
     reactions |-> << InRxn("r_a", EXCHANGE, << Coeff("x_a", 1) >>, None) >>,
     biomass_reaction |-> None]

\* an exchange reaction with no metabolite
EmptyExchangeModel(o) ==
    [id |-> o,
     compartments |-> Comps("c", "e"),
     metabolites |-> << InMet(o, "x", "e") >>,
     genes |-> << InGene("g") >>,
     reactions |-> << InRxn("r", ENZYMATIC, << Coeff("x", -1) >>, None),
                      InRxn("ex", EXCHANGE, << >>, None) >>,
     biomass_reaction |-> Some("r")]

\* an exchange reaction with two metabolites, which is also the biomass reaction
TwoTermExchangeModel(o) ==
    [id |-> o,
     compartments |-> Comps("c", "e"),
     metabolites |-> << InMet(o, "x", "e"), InMet(o, "y", "e") >>,
     genes |-> << >>,
     reactions |-> << InRxn("ex", EXCHANGE, << Coeff("x", -1), Coeff("y", 1) >>, None) >>,
     biomass_reaction |-> Some("ex")]

\* a reaction called "community"
CommunityReactionModel(o) ==
    [id |-> o,
     compartments |-> Comps("c", "e"),
     metabolites |-> << InMet(o, "x", "e") >>,
     genes |-> << InGene("g") >>,
     reactions |-> << InRxn("community", ENZYMATIC, << Coeff("x", 1) >>, InGPR("g")) >>,
     biomass_reaction |-> None]

ModelPool ==
    { PlainModel("a"), PrefixModel("a"), SuffixModel("a"), EmptyExchangeModel("a"),
      TwoTermExchangeModel("a"),
      PlainModel("b"), SuffixModel("b"), EmptyExchangeModel("b"), TwoTermExchangeModel("b"),
      PlainModel("a_b"), PrefixModel("a_b"), TwoTermExchangeModel("a_b"),
      PlainModel("growth"), CommunityReactionModel("growth") }

\* the lists of 1 .. MaxModels models
ModelLists == UNION { [1..n -> ModelPool] : n \in 1..MaxModels }

(***************************************************************************)
(* Community.__init__                                                      *)
(***************************************************************************)
\* line 15: {model.id for model in models}
model_ids(models) == {models[i].id : i \in 1..Len(models)}

\* line 17
IdsNotUnique(models) == Cardinality(model_ids(models)) < Len(models)

\* line 21: self.organisms[model.id] = model.copy() if copy_models else model.
\* The value records which element of the list it is (src) and whether it is a copy.
StoreOrganism(od, models, copy_models, i) ==
    OrderedPut(od, models[i].id, [src |-> i, copied |-> copy_models, model |-> models[i]])

\* lines 20-21
RECURSIVE Register(_, _, _, _)
Register(od, models, copy_models, i) ==
    IF i > Len(models) THEN od
    ELSE Register(StoreOrganism(od, models, copy_models, i), models, copy_models, i + 1)

CommunityInit ==
    /\ pc = "start"
    /\ pc' = "constructed"
    /\ id' = args.community_id
    /\ _merged_model' = None
    /\ reaction_map' = None
    /\ metabolite_map' = None
    /\ warnings' = IF IdsNotUnique(args.models) THEN warnings + 1 ELSE warnings
    /\ organisms' = Register(<< >>, args.models, args.copy_models, 1)
    /\ UNCHANGED <<args, returned, merge_calls, objects>>

\* Community.size
size(orgs) == Len(orgs)

(***************************************************************************)
(* Community.merged_model and Community.merge_models                       *)
(***************************************************************************)
\* a getter that forgets the cache
NeedsMergeAlways(cached) == TRUE

\* line 28
NeedsMerge(cached) == cached = None

Raised == [raised |-> TRUE, value |-> None]
Returned(value) == [raised |-> FALSE, value |-> value]

\* a read of the property merged_model
ReadMergedModel ==
    /\ pc = "constructed"
    /\ Len(returned) < MaxReads
    /\ IF NeedsMerge(_merged_model)
       THEN LET st == merge_models(id, organisms, objects + 1)
            IN  /\ objects' = objects + 1
                /\ merge_calls' = merge_calls + 1
                /\ reaction_map' = Some(st.reaction_map)
                /\ metabolite_map' = Some(st.metabolite_map)
                /\ IF st.failed
                   THEN /\ _merged_model' = _merged_model
                        /\ returned' = Append(returned, Raised)
                   ELSE /\ _merged_model' = Some(st.comm_model)
                        /\ returned' = Append(returned, Returned(Some(st.comm_model)))
       ELSE /\ returned' = Append(returned, Returned(_merged_model))
            /\ UNCHANGED <<_merged_model, reaction_map, metabolite_map, merge_calls, objects>>
    /\ UNCHANGED <<pc, args, id, organisms, warnings>>

\* a direct call of merge_models(): the caller gets the model (or the exception);
\* the object keeps only the maps
CallMergeModels ==
    /\ pc = "constructed"
    /\ objects < MaxReads
    /\ LET st == merge_models(id, organisms, objects + 1)
       IN  /\ objects' = objects + 1
           /\ reaction_map' = Some(st.reaction_map)
           /\ metabolite_map' = Some(st.metabolite_map)
    /\ UNCHANGED <<pc, args, id, organisms, _merged_model, warnings, returned, merge_calls>>

Init ==
    /\ pc = "start"
    /\ args \in [community_id : {"comm"}, models : ModelLists, copy_models : BOOLEAN]
    /\ id = None
    /\ organisms = << >>
    /\ _merged_model = None
    /\ reaction_map = None
    /\ metabolite_map = None
    /\ warnings = 0
    /\ returned = << >>
    /\ merge_calls = 0
    /\ objects = 0

Next ==
    \/ CommunityInit
    \/ ReadMergedModel
    \/ CallMergeModels

Spec == Init /\ [][Next]_vars

(***************************************************************************)
(* Properties.                                                             *)
(***************************************************************************)
Merged == _merged_model[1]
IsMerged == _merged_model # None
OrgIx == 1..Len(organisms)
OrgModel(i) == organisms[i].value.model
LastRead == returned[Len(returned)]

\* the locals of the merge that produced the cached model
MergeLocals == merge_models(id, organisms, Merged.obj)

RECURSIVE Sum(_)
Sum(ns) == IF ns = << >> THEN 0 ELSE Head(ns) + Sum(Tail(ns))

Injective(f) == \A j, k \in DOMAIN f : f[j] = f[k] => j = k

\* C1: construction does not merge; the first read of merged_model merges once and
\* stores the model; every read that returns a model returns that stored object,
\* and no read after the first runs the merge again.
C1_LazyOnce ==
    /\ (Len(returned) = 0 => ~IsMerged /\ merge_calls = 0)
    /\ \A i \in 1..Len(returned) :
          ~returned[i].raised =>
              /\ merge_calls = 1
              /\ returned[i].value = _merged_model
              /\ IsMerged

C1_Witness ==
    /\ Len(returned) >= 2
    /\ ~returned[1].raised
    /\ ~returned[2].raised
    /\ Len(organisms) = Len(args.models)

\* C2: after construction from a list with a repeated id there is one organism per
\* id, a warning was emitted, and the organism kept under an id is the first model
\* of the list with that id.
C2_FirstKept ==
    pc = "constructed" =>
        /\ size(organisms) = Cardinality(model_ids(args.models))
        /\ (IdsNotUnique(args.models) => warnings = 1)
        /\ \A i \in OrgIx :
              \A j \in 1..Len(args.models) :
                  args.models[j].id = organisms[i].key => organisms[i].value.src <= j

\* C3: in a finished merge no insertion replaced an earlier one (every compartment,
\* metabolite, gene and reaction inserted is still there under its own id) and the
\* two provenance maps are injective.
C3_NoIdCollision ==
    IsMerged =>
        LET n_pooled == Len(MergeLocals.ext_mets)
        IN  /\ Cardinality(DOMAIN Merged.compartments) =
                 1 + Sum([i \in OrgIx |-> Len(OrgModel(i).compartments)])
            /\ Cardinality(DOMAIN Merged.metabolites) =
                 1 + Sum([i \in OrgIx |-> Len(OrgModel(i).metabolites)]) + n_pooled
            /\ Cardinality(DOMAIN Merged.genes) =
                 Sum([i \in OrgIx |-> Len(OrgModel(i).genes)])
            /\ Cardinality(DOMAIN Merged.reactions) =
                 1 + Sum([i \in OrgIx |-> Len(OrgModel(i).reactions)]) + n_pooled
            /\ Injective(reaction_map[1])
            /\ Injective(metabolite_map[1])

\* the first organism, in registry order, that has a metabolite with this id
FirstWith(m_id) ==
    CHOOSE i \in OrgIx :
        /\ \E k \in 1..Len(OrgModel(i).metabolites) : OrgModel(i).metabolites[k].id = m_id
        /\ \A j \in 1..(i - 1) :
              \A k \in 1..Len(OrgModel(j).metabolites) : OrgModel(j).metabolites[k].id # m_id

NameIn(i, m_id) ==
    LET k == CHOOSE n \in 1..Len(OrgModel(i).metabolites) :
                 OrgModel(i).metabolites[n].id = m_id
    IN  OrgModel(i).metabolites[k].name

\* C4: in a finished merge every metabolite id of an organism names a metabolite of
\* the merged model that sits in 'ext' and carries the name the first organism with
\* that id gives it, and the _INT reaction of every exchange of it references it.
C4_PooledOnce ==
    IsMerged =>
        \A i \in OrgIx :
            /\ \A k \in 1..Len(OrgModel(i).metabolites) :
                  LET m_id == OrgModel(i).metabolites[k].id
                  IN  /\ m_id \in DOMAIN Merged.metabolites
                      /\ Merged.metabolites[m_id].compartment = ext_comp_id
                      /\ Merged.metabolites[m_id].name = NameIn(FirstWith(m_id), m_id)
            /\ \A k \in 1..Len(OrgModel(i).reactions) :
                  LET rxn == OrgModel(i).reactions[k]
                  IN  IsExchange(rxn) /\ Len(rxn.stoichiometry) = 1 =>
                        rxn.stoichiometry[1].met \in
                            DOMAIN Merged.reactions[
                                reaction_map[1][<<organisms[i].key, rxn.id>>]].stoichiometry

\* C5: in a finished merge every exchange reaction r of an organism o with the single
\* metabolite m is found as rename(r)+"_INT": reversible, of type exchange, with
\* stoichiometry {m: +1, rename(m): -1}, and reaction_map[(o, r)] is that id.
C5_ExchangeConverted ==
    IsMerged =>
        \A i \in OrgIx :
            \A k \in 1..Len(OrgModel(i).reactions) :
                LET rxn == OrgModel(i).reactions[k]
                    o == organisms[i].key
                    new_id == rename(rxn.id, o) \o "_INT"
                IN  IsExchange(rxn) /\ Len(rxn.stoichiometry) = 1 =>
                      LET m_id == rxn.stoichiometry[1].met
                      IN  /\ new_id \in DOMAIN Merged.reactions
                          /\ Merged.reactions[new_id].reversible
                          /\ Merged.reactions[new_id].reaction_type = EXCHANGE
                          /\ Merged.reactions[new_id].stoichiometry =
                                Put(Put(EmptyDict, m_id, 1), rename(m_id, o), -1)
                          /\ reaction_map[1][<<o, rxn.id>>] = new_id

\* C6: in a finished merge 'community_growth' has objective 1, is irreversible, has
\* bounds [0, inf) and stoichiometry {community_biomass: -1}, and every other
\* reaction has objective 0.
C6_SoleObjective ==
    IsMerged =>
        /\ comm_growth \in DOMAIN Merged.reactions
        /\ Merged.reactions[comm_growth].objective = 1
        /\ ~Merged.reactions[comm_growth].reversible
        /\ Merged.reactions[comm_growth].lb = 0
        /\ Merged.reactions[comm_growth].ub = inf
        /\ Merged.reactions[comm_growth].stoichiometry = Put(EmptyDict, biomass_id, -1)
        /\ \A r_id \in DOMAIN Merged.reactions :
              r_id # comm_growth => Merged.reactions[r_id].objective = 0

\* the merged ids of the organisms' designated biomass reactions
BiomassReactions ==
    UNION { { reaction_map[1][<<organisms[i].key, OrgModel(i).reactions[k].id>>] :
                k \in { n \in 1..Len(OrgModel(i).reactions) :
                          IsBiomassReaction(OrgModel(i).reactions[n].id, OrgModel(i)) } } :
            i \in OrgIx }

\* C7: in a finished merge the merged biomass reaction of every organism has the
\* renamed stoichiometry of the original plus {community_biomass: +1}, and only
\* those reactions produce community_biomass.
C7_BiomassFeeds ==
    IsMerged =>
        /\ \A i \in OrgIx :
              \A k \in 1..Len(OrgModel(i).reactions) :
                  LET rxn == OrgModel(i).reactions[k]
                      o == organisms[i].key
                  IN  IsBiomassReaction(rxn.id, OrgModel(i)) =>
                        Merged.reactions[reaction_map[1][<<o, rxn.id>>]].stoichiometry =
                            Put(RenamedStoichiometry(rxn.stoichiometry, o), biomass_id, 1)
        /\ \A r_id \in DOMAIN Merged.reactions :
              LET stoichiometry == Merged.reactions[r_id].stoichiometry
              IN  (biomass_id \in DOMAIN stoichiometry /\ stoichiometry[biomass_id] > 0)
                      => r_id \in BiomassReactions

\* C8: in a finished merge every id of the pooled list has exactly one reaction that
\* is reversible, of type exchange, with stoichiometry {that id: -1}.
C8_OneExchangeEach ==
    IsMerged =>
        \A k \in 1..Len(MergeLocals.ext_mets) :
            Cardinality({ r_id \in DOMAIN Merged.reactions :
                /\ Merged.reactions[r_id].stoichiometry =
                       Put(EmptyDict, MergeLocals.ext_mets[k], -1)
                /\ Merged.reactions[r_id].reversible
                /\ Merged.reactions[r_id].reaction_type = EXCHANGE }) = 1

\* C9: when the latest read of merged_model raised, no model is cached and neither
\* provenance map holds an entry.
C9_NoPartialResult ==
    (Len(returned) > 0 /\ LastRead.raised) =>
        /\ ~IsMerged
        /\ (reaction_map # None => DOMAIN reaction_map[1] = {})
        /\ (metabolite_map # None => DOMAIN metabolite_map[1] = {})

\* the numbers of terms of the exchange reactions of the community's organisms
ExchangeArities ==
    UNION { { Len(OrgModel(i).reactions[k].stoichiometry) :
                k \in { n \in 1..Len(OrgModel(i).reactions) :
                          IsExchange(OrgModel(i).reactions[n]) } } :
            i \in OrgIx }

\* C10, as claimed: when an organism has an exchange reaction with zero terms or
\* with two or more, every read of merged_model raises.
C10_WrongArityRaises ==
    (\E n \in ExchangeArities : n # 1) =>
        \A i \in 1..Len(returned) : returned[i].raised /\ ~IsMerged

\* C10, amended: when an organism has an exchange reaction with zero terms, every
\* read of merged_model raises and no model is cached; when none has, exchange
\* reactions with two or more terms included, every read returns a model.
C10_EmptyExchangeRaises ==
    \A i \in 1..Len(returned) :
        IF 0 \in ExchangeArities
        THEN returned[i].raised /\ ~IsMerged
        ELSE ~returned[i].raised /\ IsMerged

C10_Witness ==
    /\ \E n \in ExchangeArities : n >= 2
    /\ 0 \notin ExchangeArities
    /\ Len(returned) > 0
    /\ ~LastRead.raised
    /\ IsMerged

====
